---- MODULE Spec2Model ----
(***************************************************************************)
(* Model of main.py: PDF pages -> compressed JPG images.                   *)
(*                                                                         *)
(* Strings are sequences of one-character strings, so that the string      *)
(* functions (strip, re.sub, stem/suffix, the page-number format) are      *)
(* computed character by character.  A filesystem path is a sequence of    *)
(* components; the parent directory of the output root is the empty path.  *)
(***************************************************************************)
EXTENDS Integers, Sequences, FiniteSets, TLC

(* ------------------------------ bounds --------------------------------- *)
\* longest string given to sanitize_name in the SanSpec specification
MaxLen == 3
\* largest number of entries of the input directory
MaxDocs == 2
\* largest number of pages of a document
MaxPages == 2

(* --------------------------- program constants ------------------------- *)
MinQuality == 30
MaxQuality == 95
ExitOk == 0
ExitNoInput == 1
ExitInvalidQuality == 2
\* status of the interpreter when an exception leaves main (raise at line 73)
ExitUncaught == 1

(* ------------------------------ characters ----------------------------- *)
UpperCase == <<"A","B","C","D","E","F","G","H","I","J","K","L","M",
               "N","O","P","Q","R","S","T","U","V","W","X","Y","Z">>
LowerCase == <<"a","b","c","d","e","f","g","h","i","j","k","l","m",
               "n","o","p","q","r","s","t","u","v","w","x","y","z">>
Digits == <<"0","1","2","3","4","5","6","7","8","9">>

Range(f) == { f[i] : i \in DOMAIN f }

\* e, evaluated once, given to F
With(e, F(_)) == CHOOSE y \in { F(x) : x \in {e} } : TRUE

\* str.strip() / regex \s : whitespace
IsSpace(c) == c \in {" ", "\t", "\n"}

\* regex class [A-Za-z0-9._-]
AllowedChars == Range(UpperCase) \cup Range(LowerCase) \cup Range(Digits)
                \cup {".", "_", "-"}
IsAllowed(c) == c \in AllowedChars

\* str.lower() on one character
LowerChar(c) == IF \E i \in DOMAIN UpperCase : UpperCase[i] = c
                THEN LowerCase[CHOOSE i \in DOMAIN UpperCase : UpperCase[i] = c]
                ELSE c

Lower(s) == [ i \in DOMAIN s |-> LowerChar(s[i]) ]

(* ------------------------------ sanitize_name -------------------------- *)
\* s.strip(): what lies between the first and the last non-whitespace
\* character, nothing when there is none
Strip(s) ==
    IF \A i \in DOMAIN s : IsSpace(s[i]) THEN <<>>
    ELSE SubSeq(s,
           CHOOSE i \in DOMAIN s :
              ~IsSpace(s[i]) /\ \A j \in 1..(i - 1) : IsSpace(s[j]),
           CHOOSE i \in DOMAIN s :
              ~IsSpace(s[i]) /\ \A j \in (i + 1)..Len(s) : IsSpace(s[j]))

\* re.sub(r"\s+", "_", s): every maximal run of whitespace becomes one "_"
\* (the first character of a run becomes "_", the others of the run vanish)
CollapseSpace(s) ==
    SelectSeq([ i \in DOMAIN s |->
                  IF ~IsSpace(s[i]) THEN s[i]
                  ELSE IF i > 1 /\ IsSpace(s[i - 1]) THEN "" ELSE "_" ],
              LAMBDA c : c # "")

\* re.sub(r"[^A-Za-z0-9._-]+", "", s)
StripDisallowed(s) == SelectSeq(s, IsAllowed)

\* sanitize_name without the final "or fallback" of line 58
SanitizeNameNoFinalFallback(s, fallback) ==
    With(s, LAMBDA s0 :
      With(Strip(s0), LAMBDA t :
        IF t = <<>> THEN fallback
        ELSE StripDisallowed(CollapseSpace(t))))

sanitize_name(s, fallback) ==
    With(s, LAMBDA s0 :
      With(Strip(s0), LAMBDA t :
        IF t = <<>> THEN fallback
        ELSE With(StripDisallowed(CollapseSpace(t)), LAMBDA u :
               IF u = <<>> THEN fallback ELSE u)))

FallbackPage == <<"p","a","g","e">>
FallbackDocument == <<"d","o","c","u","m","e","n","t">>

(* ------------------------------ pathlib -------------------------------- *)
Dot == <<".">>
DotDot == <<".", ".">>
PdfSuffix == <<".","p","d","f">>
JpgSuffix == <<".","j","p","g">>
ZipTail == <<"_","i","m","a","g","e","s",".","z","i","p">>

\* position of the last "." of a name, 0 when there is none (str.rfind + 1)
RFindDot(name) ==
    IF \E i \in DOMAIN name : name[i] = "."
    THEN CHOOSE i \in DOMAIN name :
            name[i] = "." /\ \A j \in DOMAIN name : name[j] = "." => j <= i
    ELSE 0

\* PurePath.suffix: the last dot and what follows it, unless the dot is the
\* first or the last character of the name
Suffix(name) ==
    With(RFindDot(name), LAMBDA i :
      IF 1 < i /\ i < Len(name) THEN SubSeq(name, i, Len(name)) ELSE <<>>)

\* PurePath.stem
Stem(name) ==
    With(RFindDot(name), LAMBDA i :
      IF 1 < i /\ i < Len(name) THEN SubSeq(name, 1, i - 1) ELSE name)

\* the pattern "*.pdf" of Path.glob
MatchesGlobPdf(name) ==
    Len(name) >= Len(PdfSuffix)
    /\ SubSeq(name, Len(name) - Len(PdfSuffix) + 1, Len(name)) = PdfSuffix

\* code points order of the characters used, for sorted()
CharOrder == <<"\t", "\n", " ", "!", "-", ".">> \o Digits \o <<"?">> \o UpperCase
             \o <<"_">> \o LowerCase
Ord(c) == CHOOSE i \in DOMAIN CharOrder : CharOrder[i] = c

\* a < b for two str: the first position where they differ decides, a proper
\* prefix comes first
StrLess(a, b) ==
    \E k \in 1..Len(b) :
        /\ \A j \in 1..(k - 1) : j <= Len(a) /\ a[j] = b[j]
        /\ (k > Len(a) \/ (k - 1 < Len(a) /\ Ord(a[k]) < Ord(b[k])))

\* sorted(...) of a set of names
RECURSIVE Sorted(_)
Sorted(S) ==
    IF S = {} THEN <<>>
    ELSE LET m == CHOOSE x \in S : \A y \in S \ {x} : StrLess(x, y)
         IN <<m>> \o Sorted(S \ {m})

\* p / c : pathlib drops a "." component and keeps ".." as it is
PathJoin(p, c) == IF c = Dot THEN p ELSE Append(p, c)

\* the directory or file a path names once the system has followed ".."
RECURSIVE Resolve(_)
Resolve(p) ==
    With(p, LAMBDA q :
      IF q = <<>> THEN <<>>
      ELSE With(Resolve(SubSeq(q, 1, Len(q) - 1)), LAMBDA r :
             IF q[Len(q)] = DotDot
             THEN (IF r = <<>> THEN <<>> ELSE SubSeq(r, 1, Len(r) - 1))
             ELSE Append(r, q[Len(q)])))

Parent(p) == SubSeq(p, 1, Len(p) - 1)

\* every directory on the way to p, p included (mkdir(parents=True))
Ancestors(p) == { SubSeq(p, 1, k) : k \in 0..Len(p) }

\* f"{n:03d}"
RECURSIVE DecimalDigits(_)
DecimalDigits(n) ==
    IF n < 10 THEN <<Digits[n + 1]>>
    ELSE DecimalDigits(n \div 10) \o <<Digits[(n % 10) + 1]>>

RECURSIVE PadLeft(_, _)
PadLeft(s, width) == IF Len(s) >= width THEN s ELSE PadLeft(<<"0">> \o s, width)

Format03d(n) == PadLeft(DecimalDigits(n), 3)

\* f"{prefix}_{i+1:03d}.jpg" with i counted from 0, as written at line 128
PageFileName(prefix, i) == prefix \o <<"_">> \o Format03d(i + 1) \o JpgSuffix

(* ------------------------------ the run -------------------------------- *)
VARIABLES
    pc,           \* position of main
    quality,      \* --quality
    optPrefix,    \* --prefix
    overwrite,    \* --overwrite
    zipFlag,      \* --zip
    input,        \* what --input names: [kind, names]
    prior,        \* what the disk held before the run: "fresh" or "rerun"
    dirs,         \* directories on disk (resolved paths)
    files,        \* regular files on disk (resolved paths)
    pdfs,         \* main: list(iter_pdfs(input_path))
    idx,          \* main: position of the loop "for pdf in pdfs", 0 before it
    out_dir,      \* convert_pdf / main: out_root / pdf_stem
    total,        \* convert_pdf: len(doc)
    page_i,       \* convert_pdf: pages saved so far (the i of the next page)
    image_paths,  \* convert_pdf / main: the paths saved
    openDocs,     \* positions in pdfs of the documents whose handle is open
    attempted,    \* positions in pdfs of the calls of convert_pdf, in order
    reported,     \* names printed by "Failed for ...", in order
    archives,     \* [doc, dir, path] of every ZIP created
    summary,      \* "Done." has been printed
    exitCode,     \* status of the process, -1 while it runs
    sIn, sFallback, sOut, sOut2, sPc   \* a call of sanitize_name and its repetition

runVars == <<pc, quality, optPrefix, overwrite, zipFlag, input, prior, dirs, files,
             pdfs, idx, out_dir, total, page_i, image_paths, openDocs, attempted,
             reported, archives, summary, exitCode>>
sanVars == <<sIn, sFallback, sOut, sOut2, sPc>>
vars == <<runVars, sanVars>>

(* names on disk *)
OutRoot == << <<"o","u","t">> >>
NotesFile == << <<"n","o","t","e","s">> >>
KeepFile == Append(OutRoot, <<"k","e","e","p">>)
OldStem == <<"a","_","b">>
OldDir == Append(OutRoot, OldStem)
OldSub == Append(OldDir, <<"s","u","b">>)
OldSubFile == Append(OldSub, <<"x">>)
OldZip == Append(OldDir, OldStem \o ZipTail)

\* file names the input directory may hold
NamePool == { <<"a"," ","b">> \o PdfSuffix,
              <<"a","_","b">> \o PdfSuffix,
              <<"!",".","!">> \o PdfSuffix,
              <<"!",".","!",".","!">> \o PdfSuffix,
              <<"?">> \o PdfSuffix,
              <<"B",".","P","D","F">> }
\* file names --input may name directly
FilePool == { <<"a"," ","b">> \o PdfSuffix,
              <<"B",".","P","D","F">>,
              <<"n",".","t","x","t">> }

\* --quality and --prefix as given: both ends of the accepted range and the
\* first value outside it on each side; the default-like empty prefix and one
\* that sanitizing changes
OptionPool == { [quality |-> MinQuality - 1, prefix |-> <<>>],
                [quality |-> MinQuality,     prefix |-> <<>>],
                [quality |-> MaxQuality,     prefix |-> <<"p"," ","q">>],
                [quality |-> MaxQuality + 1, prefix |-> <<"p"," ","q">>] }

Inputs ==
    { [kind |-> "missing", names |-> {}] }
    \cup { [kind |-> "file", names |-> {n}] : n \in FilePool }
    \cup { [kind |-> "dir", names |-> S] :
              S \in { T \in SUBSET NamePool : Cardinality(T) <= MaxDocs } }

\* the images a previous run left: one page more than any document has now
OldImages(prefix) ==
    { Append(OldDir, PageFileName(sanitize_name(prefix, FallbackPage), i)) :
         i \in 0..MaxPages }

InitDirs(pr) == IF pr = "rerun" THEN {<<>>, OutRoot, OldDir, OldSub} ELSE {<<>>}
InitFiles(pr, prefix) ==
    IF pr = "rerun"
    THEN {NotesFile, KeepFile, OldZip, OldSubFile} \cup OldImages(prefix)
    ELSE {NotesFile}

SanIdle ==
    /\ sIn = <<>> /\ sFallback = FallbackPage /\ sOut = <<>> /\ sOut2 = <<>>
    /\ sPc = "idle"

Init ==
    /\ pc = "start"
    /\ \E o \in OptionPool : quality = o.quality /\ optPrefix = o.prefix
    /\ overwrite \in BOOLEAN
    /\ zipFlag \in BOOLEAN
    /\ input \in Inputs
    /\ prior \in {"fresh", "rerun"}
    /\ dirs = InitDirs(prior)
    /\ files = InitFiles(prior, optPrefix)
    /\ pdfs = <<>>
    /\ idx = 0
    /\ out_dir = <<>>
    /\ total = 0
    /\ page_i = 0
    /\ image_paths = <<>>
    /\ openDocs = {}
    /\ attempted = <<>>
    /\ reported = <<>>
    /\ archives = {}
    /\ summary = FALSE
    /\ exitCode = -1
    /\ SanIdle

(* ------------------------------ iter_pdfs ------------------------------ *)
\* the sequence iter_pdfs yields; the "missing" input raises instead
iter_pdfs(inp) ==
    IF inp.kind = "file"
    THEN LET n == CHOOSE x \in inp.names : TRUE IN
         IF Lower(Suffix(n)) = PdfSuffix THEN <<n>> ELSE <<>>
    ELSE IF inp.kind = "dir"
    THEN Sorted({ n \in inp.names : MatchesGlobPdf(n) })
    ELSE <<>>

(* ------------------------------ main ----------------------------------- *)
optsUnchanged == UNCHANGED <<quality, optPrefix, overwrite, zipFlag, input, prior>>
convUnchanged == UNCHANGED <<out_dir, total, page_i, image_paths>>
histUnchanged == UNCHANGED <<attempted, reported, archives, summary>>

\* lines 211-213: out_root.mkdir(parents=True, exist_ok=True)
MkOutRoot ==
    /\ pc = "start"
    /\ dirs' = dirs \cup Ancestors(OutRoot)
    /\ pc' = "validate"
    /\ UNCHANGED <<files, pdfs, idx, openDocs, exitCode, sanVars>>
    /\ optsUnchanged /\ convUnchanged /\ histUnchanged

\* lines 215-232: the quality check, then the options
ValidateQuality ==
    /\ pc = "validate"
    /\ IF ~(MinQuality <= quality /\ quality <= MaxQuality)
       THEN pc' = "exit" /\ exitCode' = ExitInvalidQuality
       ELSE pc' = "resolve" /\ exitCode' = exitCode
    /\ UNCHANGED <<dirs, files, pdfs, idx, openDocs, sanVars>>
    /\ optsUnchanged /\ convUnchanged /\ histUnchanged

\* lines 234-240: pdfs = list(iter_pdfs(input_path)); FileNotFoundError is not
\* caught and ends the process
ResolveInput ==
    /\ pc = "resolve"
    /\ IF input.kind = "missing"
       THEN pc' = "exit" /\ exitCode' = ExitUncaught /\ pdfs' = pdfs /\ idx' = idx
       ELSE /\ pdfs' = iter_pdfs(input)
            /\ IF pdfs' = <<>>
               THEN pc' = "exit" /\ exitCode' = ExitNoInput /\ idx' = idx
               ELSE pc' = "convert" /\ exitCode' = exitCode /\ idx' = 1
    /\ UNCHANGED <<dirs, files, openDocs, sanVars>>
    /\ optsUnchanged /\ convUnchanged /\ histUnchanged

\* the for loop of line 242 moving to the next document, or past the last one;
\* what the turn just ended left in the locals is not read again
Advance ==
    /\ IF idx < Len(pdfs) THEN idx' = idx + 1 /\ pc' = "convert"
       ELSE idx' = idx /\ pc' = "done"
    /\ out_dir' = <<>> /\ total' = 0 /\ page_i' = 0 /\ image_paths' = <<>>

(* ------------------------------ convert_pdf ---------------------------- *)
\* the regular files directly inside directory d
RegularFilesIn(d) == { f \in files : f # <<>> /\ Parent(f) = d }

\* lines 97-98: out_root / sanitize_name(pdf_path.stem, fallback="document")
OutDirOf(name) == PathJoin(OutRoot, sanitize_name(Stem(name), FallbackDocument))

\* lines 97-111 with a cleanup that removes the whole tree below out_dir
ConvertStartRecursiveClean ==
    /\ pc = "convert"
    /\ attempted' = Append(attempted, idx)
    /\ \E d \in {OutDirOf(pdfs[idx])} : \E r \in {Resolve(d)} :
          /\ out_dir' = d
          /\ IF r \in dirs \cup files
             THEN IF ~overwrite
                  THEN pc' = "except" /\ files' = files /\ dirs' = dirs
                  ELSE /\ files' = { f \in files :
                                       ~(Len(f) > Len(r) /\ SubSeq(f, 1, Len(r)) = r) }
                       /\ dirs' = { g \in dirs :
                                       ~(Len(g) > Len(r) /\ SubSeq(g, 1, Len(r)) = r) }
                       /\ pc' = "open"
             ELSE dirs' = dirs \cup Ancestors(r) /\ files' = files /\ pc' = "open"
    /\ total' = 0 /\ page_i' = 0 /\ image_paths' = <<>>
    /\ UNCHANGED <<pdfs, idx, openDocs, reported, archives, summary, exitCode, sanVars>>
    /\ optsUnchanged

\* lines 97-111: the output folder and the collision policy
ConvertStart ==
    /\ pc = "convert"
    /\ attempted' = Append(attempted, idx)
    /\ \E d \in {OutDirOf(pdfs[idx])} : \E r \in {Resolve(d)} :
          /\ out_dir' = d
          /\ IF r \in dirs \cup files
             THEN IF ~overwrite
                  THEN pc' = "except" /\ files' = files /\ dirs' = dirs
                  ELSE /\ files' = files \ RegularFilesIn(r)
                       /\ dirs' = dirs
                       /\ pc' = "open"
             ELSE dirs' = dirs \cup Ancestors(r) /\ files' = files /\ pc' = "open"
    /\ total' = 0 /\ page_i' = 0 /\ image_paths' = <<>>
    /\ UNCHANGED <<pdfs, idx, openDocs, reported, archives, summary, exitCode, sanVars>>
    /\ optsUnchanged

\* lines 113-122: fitz.open, which may raise; the zero-page check
OpenDoc ==
    /\ pc = "open"
    /\ \E n \in {-1} \cup (0..MaxPages) :
          IF n = -1
          THEN pc' = "except" /\ openDocs' = openDocs /\ total' = total
          ELSE IF n = 0
          THEN pc' = "except" /\ openDocs' = openDocs /\ total' = 0
          ELSE pc' = "page" /\ openDocs' = openDocs \cup {idx} /\ total' = n
    /\ UNCHANGED <<dirs, files, pdfs, idx, out_dir, page_i, image_paths, exitCode,
                   sanVars>>
    /\ optsUnchanged /\ histUnchanged

\* lines 123-142 with the page number taken as i instead of i+1
RenderPageFromZero ==
    /\ pc = "page"
    /\ \E name \in {PageFileName(sanitize_name(optPrefix, FallbackPage), page_i - 1)} :
       \E f \in {Append(Resolve(out_dir), name)} :
          \E ok \in BOOLEAN :
             IF ok /\ Resolve(out_dir) \in dirs /\ f \notin dirs
             THEN /\ files' = files \cup {f}
                  /\ image_paths' = Append(image_paths, Append(out_dir, name))
                  /\ page_i' = page_i + 1
                  /\ pc' = IF page_i + 1 = total THEN "close" ELSE "page"
             ELSE /\ pc' = "except"
                  /\ UNCHANGED <<files, image_paths, page_i>>
    /\ UNCHANGED <<dirs, pdfs, idx, out_dir, total, openDocs, exitCode, sanVars>>
    /\ optsUnchanged /\ histUnchanged

\* lines 123-142: one turn of the page loop; rendering, resizing or saving may
\* raise, and saving raises when the target cannot be written
RenderPage ==
    /\ pc = "page"
    /\ \E name \in {PageFileName(sanitize_name(optPrefix, FallbackPage), page_i)} :
       \E f \in {Append(Resolve(out_dir), name)} :
          \E ok \in BOOLEAN :
             IF ok /\ Resolve(out_dir) \in dirs /\ f \notin dirs
             THEN /\ files' = files \cup {f}
                  /\ image_paths' = Append(image_paths, Append(out_dir, name))
                  /\ page_i' = page_i + 1
                  /\ pc' = IF page_i + 1 = total THEN "close" ELSE "page"
             ELSE /\ pc' = "except"
                  /\ UNCHANGED <<files, image_paths, page_i>>
    /\ UNCHANGED <<dirs, pdfs, idx, out_dir, total, openDocs, exitCode, sanVars>>
    /\ optsUnchanged /\ histUnchanged

\* lines 144-145: doc.close() and the return to main
CloseDoc ==
    /\ pc = "close"
    /\ openDocs' = openDocs \ {idx}
    /\ pc' = "returned"
    /\ UNCHANGED <<dirs, files, pdfs, idx, exitCode, sanVars>>
    /\ optsUnchanged /\ convUnchanged /\ histUnchanged

(* ------------------------------ main, per document --------------------- *)
\* line 247: out_dir / f"{sanitize_name(pdf.stem)}_images.zip"
ZipPath == Append(out_dir, sanitize_name(Stem(pdfs[idx]), FallbackPage) \o ZipTail)

\* lines 246-250: make_zip when --zip is given; it may raise before or after
\* the archive file has been created
ZipStep ==
    /\ pc = "returned"
    /\ IF zipFlag
       THEN \E r \in {"ok", "fail_open", "fail_write"} :
            \E zp \in {ZipPath} : \E z \in {Resolve(zp)} :
              /\ files' = IF r = "fail_open" THEN files \ {z} ELSE files \cup {z}
              /\ IF r = "ok"
                 THEN /\ archives' = archives \cup
                            {[doc |-> idx, dir |-> out_dir, path |-> zp]}
                      /\ Advance
                 ELSE archives' = archives /\ pc' = "except" /\ idx' = idx
                      /\ convUnchanged
       ELSE files' = files /\ archives' = archives /\ Advance
    /\ UNCHANGED <<dirs, pdfs, openDocs, attempted, reported, summary, exitCode,
                   sanVars>>
    /\ optsUnchanged

\* lines 252-253 where the failure ends the loop
ReportFailureAbort ==
    /\ pc = "except"
    /\ reported' = Append(reported, pdfs[idx])
    /\ \E reclaimed \in BOOLEAN :
          openDocs' = IF reclaimed THEN openDocs \ {idx} ELSE openDocs
    /\ idx' = idx /\ pc' = "done"
    /\ out_dir' = <<>> /\ total' = 0 /\ page_i' = 0 /\ image_paths' = <<>>
    /\ UNCHANGED <<dirs, files, pdfs, attempted, archives, summary, exitCode, sanVars>>
    /\ optsUnchanged

\* lines 252-253: the failure is printed and the loop goes on.  No statement
\* closes the document on this path; when the exception object is dropped the
\* runtime may or may not reclaim the handle
ReportFailure ==
    /\ pc = "except"
    /\ reported' = Append(reported, pdfs[idx])
    /\ \E reclaimed \in BOOLEAN :
          openDocs' = IF reclaimed THEN openDocs \ {idx} ELSE openDocs
    /\ Advance
    /\ UNCHANGED <<dirs, files, pdfs, attempted, archives, summary, exitCode, sanVars>>
    /\ optsUnchanged

\* lines 255-256 with a status that counts the failures
FinishFailing ==
    /\ pc = "done"
    /\ summary' = TRUE
    /\ exitCode' = IF reported # <<>> THEN ExitNoInput ELSE ExitOk
    /\ pc' = "exit"
    /\ UNCHANGED <<dirs, files, pdfs, idx, openDocs, attempted, reported, archives,
                   sanVars>>
    /\ optsUnchanged /\ convUnchanged

\* lines 255-256: print("Done."); return 0
Finish ==
    /\ pc = "done"
    /\ summary' = TRUE
    /\ exitCode' = ExitOk
    /\ pc' = "exit"
    /\ UNCHANGED <<dirs, files, pdfs, idx, openDocs, attempted, reported, archives,
                   sanVars>>
    /\ optsUnchanged /\ convUnchanged

Next ==
    \/ MkOutRoot
    \/ ValidateQuality
    \/ ResolveInput
    \/ ConvertStart
    \/ OpenDoc
    \/ RenderPage
    \/ CloseDoc
    \/ ZipStep
    \/ ReportFailure
    \/ Finish

Spec == Init /\ [][Next]_vars

\* main runs to its end: no step of it waits for anything
FairSpec == Spec /\ WF_vars(Next)

(* ------------------------------ sanitize_name alone -------------------- *)
SanAlphabet == {"a", "Z", "7", " ", "\t", "?", "/", ".", "_", "-"}

RECURSIVE StringsUpTo(_)
StringsUpTo(n) ==
    IF n = 0 THEN {<<>>}
    ELSE LET S == StringsUpTo(n - 1) IN
         S \cup { Append(s, c) : s \in { x \in S : Len(x) = n - 1 }, c \in SanAlphabet }

RunIdle ==
    /\ pc = "idle" /\ quality = MinQuality /\ optPrefix = <<>> /\ overwrite = FALSE
    /\ zipFlag = FALSE /\ input = [kind |-> "missing", names |-> {}]
    /\ prior = "fresh" /\ dirs = {<<>>} /\ files = {} /\ pdfs = <<>> /\ idx = 0
    /\ out_dir = <<>> /\ total = 0 /\ page_i = 0 /\ image_paths = <<>>
    /\ openDocs = {} /\ attempted = <<>> /\ reported = <<>> /\ archives = {}
    /\ summary = FALSE /\ exitCode = -1

SanInit ==
    /\ RunIdle
    /\ sIn \in StringsUpTo(MaxLen)
    /\ sFallback \in {FallbackPage, FallbackDocument}
    /\ sOut = <<>> /\ sOut2 = <<>>
    /\ sPc = "call"

\* sanitize_name(s, fallback)
SanCall ==
    /\ sPc = "call"
    /\ sOut' = sanitize_name(sIn, sFallback)
    /\ sPc' = "once"
    /\ UNCHANGED <<sIn, sFallback, sOut2, runVars>>

\* sanitize_name(sanitize_name(s, fallback), fallback)
SanAgain ==
    /\ sPc = "once"
    /\ sOut2' = sanitize_name(sOut, sFallback)
    /\ sPc' = "twice"
    /\ UNCHANGED <<sIn, sFallback, sOut, runVars>>

SanNext == SanCall \/ SanAgain

SanSpec == SanInit /\ [][SanNext]_vars

(* ------------------------------ properties ----------------------------- *)

\* the calls of convert_pdf so far are documents 1, 2, ... in this order, and
\* all of them once the loop is over
C1_AttemptedInOrder ==
    /\ attempted = [ k \in 1..Len(attempted) |-> k ]
    /\ Len(attempted) <= Len(pdfs)
    /\ (pc \in {"done", "exit"} /\ pdfs # <<>> => Len(attempted) = Len(pdfs))
\* the step out of the handler prints the failed document and turns to the
\* next one
C1_FailureContinues ==
    pc = "except" =>
        /\ reported' = Append(reported, pdfs[idx])
        /\ IF idx < Len(pdfs) THEN pc' = "convert" /\ idx' = idx + 1
           ELSE pc' = "done"
\* C1: every document of a non-empty input list is attempted exactly once, in
\* the order of the resolver; a failure of document k is reported and the loop
\* goes on with document k+1 (or ends after the last one); the run reaches
\* the final summary whatever documents fail.
C1_BatchContinues ==
    /\ []C1_AttemptedInOrder
    /\ [][C1_FailureContinues]_vars
    /\ ((pc = "convert") ~> (summary /\ Len(attempted) = Len(pdfs)))
\* the first document failed, the second was attempted, the summary printed
C1_Witness ==
    /\ summary
    /\ Len(pdfs) >= 2
    /\ reported # <<>> /\ reported[1] = pdfs[1]
    /\ Len(attempted) = Len(pdfs)

\* C2: the exit status is 2 when quality is outside 30..95, else 1 when the
\* resolver yields no document, else 0 however many documents failed; the
\* three codes differ and every run ends with one of them.
C2_ExitStatus ==
    /\ Cardinality({ExitOk, ExitNoInput, ExitInvalidQuality}) = 3
    /\ pc = "exit" =>
          exitCode = IF quality < 30 \/ quality > 95 THEN 2
                     ELSE IF input.kind = "missing" \/ iter_pdfs(input) = <<>> THEN 1
                     ELSE 0
    /\ pc # "exit" => exitCode = -1 /\ ENABLED Next
\* a run in which every one of two or more documents failed, ended with 0
C2_Witness ==
    /\ pc = "exit" /\ exitCode = 0
    /\ Len(pdfs) >= 2 /\ Len(reported) = Len(pdfs)

\* what the first step of convert_pdf does to the disk, case by case
C3_PolicyStep ==
    pc = "convert" =>
        LET r == Resolve(OutDirOf(pdfs[idx])) IN
        IF r \in dirs /\ ~overwrite
        THEN pc' = "except" /\ files' = files /\ dirs' = dirs
        ELSE IF r \in dirs
        THEN /\ files' = { f \in files : f = <<>> \/ Parent(f) # r }
             /\ dirs' = dirs
             /\ image_paths' = <<>>
             /\ pc' = "open"
        ELSE /\ \A k \in 0..Len(r) : SubSeq(r, 1, k) \in dirs'
             /\ files' = files
             /\ dirs \subseteq dirs'
             /\ pc' = "open"
\* C3: collision policy of convert_pdf.  Output directory exists, no
\* overwrite: the call fails and the disk is unchanged.  Exists, overwrite:
\* exactly the regular files directly inside it are deleted, before any page
\* is written; subdirectories and their contents stay.  Does not exist: it is
\* created with its missing parents.
C3_CollisionPolicy == [][C3_PolicyStep]_vars
\* the old directory has been cleaned: its images are gone, its subdirectory
\* and the file in it are still there, and no page has been written yet
C3_Witness ==
    /\ pc = "open" /\ overwrite /\ prior = "rerun"
    /\ Resolve(out_dir) = OldDir
    /\ OldImages(optPrefix) \cap files = {}
    /\ OldSub \in dirs /\ OldSubFile \in files
    /\ image_paths = <<>>

\* C4: when convert_pdf returns for a document of N >= 1 pages, it returns N
\* paths in page order, the k-th being out_dir/"{prefix}_{k as 3 digits}.jpg",
\* and the regular files directly inside out_dir are exactly these.
C4_PagesExact ==
    pc = "returned" =>
        LET P == sanitize_name(optPrefix, FallbackPage)
            Num(k) == << Digits[(k \div 100) + 1], Digits[((k \div 10) % 10) + 1],
                         Digits[(k % 10) + 1] >>
        IN /\ total >= 1
           /\ Len(image_paths) = total
           /\ \A k \in 1..total :
                 image_paths[k] = Append(out_dir, P \o <<"_">> \o Num(k) \o <<".","j","p","g">>)
           /\ { f \in files : f # <<>> /\ Parent(f) = Resolve(out_dir) }
                 = { Resolve(image_paths[k]) : k \in 1..total }
\* an overwrite run over the directory of a previous run that had more pages
C4_Witness ==
    /\ pc = "returned" /\ overwrite /\ prior = "rerun"
    /\ Resolve(out_dir) = OldDir
    /\ total >= 2

\* C5: the handle opened by convert_pdf is released on every outcome of the
\* call (normal return, zero pages, failure on a page), so no handle is open
\* when main turns to the next document or ends.
C5_HandleReleased ==
    pc \in {"returned", "except", "convert", "done", "exit"} => openDocs = {}

\* C6: two distinct documents of the resolved list never get the same output
\* directory.
C6_PrivateDirs ==
    \A i, j \in DOMAIN pdfs : i # j => Resolve(OutDirOf(pdfs[i])) # Resolve(OutDirOf(pdfs[j]))

\* C7: every archive is out_dir/"<S>_images.zip", S being the sanitized base
\* name that names out_dir (with the fallback token when the stem sanitizes to
\* nothing).
C7_ZipLayout ==
    \A a \in archives :
        LET S == sanitize_name(Stem(pdfs[a.doc]), FallbackDocument) IN
        /\ a.dir = PathJoin(OutRoot, S)
        /\ a.path = Append(a.dir, S \o ZipTail)

\* C8: sanitize_name is idempotent, and its result is the fallback (always so
\* for an empty or all-whitespace input and for an input of disallowed
\* characters only) or a non-empty string of ASCII letters, digits, ".", "-",
\* "_".
C8_SanitizeIdempotent ==
    sPc = "twice" =>
        /\ sOut2 = sOut
        /\ \/ sOut = sFallback
           \/ sOut # <<>> /\ \A i \in DOMAIN sOut : IsAllowed(sOut[i])
        /\ (\A i \in DOMAIN sIn : IsSpace(sIn[i])) => sOut = sFallback
        /\ (\A i \in DOMAIN sIn : ~IsSpace(sIn[i]) /\ ~IsAllowed(sIn[i]))
              => sOut = sFallback
\* an input that sanitizing changed into something else than the fallback
C8_Witness ==
    /\ sPc = "twice"
    /\ sOut # sFallback /\ sOut # sIn
    /\ \E i \in DOMAIN sIn : IsSpace(sIn[i])
    /\ \E i \in DOMAIN sIn : ~IsSpace(sIn[i]) /\ ~IsAllowed(sIn[i])

\* C9: when quality is outside 30..95 main ends with status 2 having done
\* nothing else: no directory created, input not resolved, no document
\* rendered or archived.
C9_ConfigErrorFirst ==
    pc = "exit" /\ exitCode = ExitInvalidQuality =>
        /\ dirs = InitDirs(prior)
        /\ files = InitFiles(prior, optPrefix)
        /\ pdfs = <<>> /\ attempted = <<>> /\ archives = {}

\* C10: the output directory convert_pdf works in (created or cleaned, then
\* written to) is a proper child of the output root, and no file outside the
\* directories out_root/<component> is ever deleted.
C10_ProperChild ==
    /\ pc \in {"open", "page", "close", "returned"} =>
          /\ Len(Resolve(out_dir)) = Len(OutRoot) + 1
          /\ Parent(Resolve(out_dir)) = OutRoot
    /\ \A f \in InitFiles(prior, optPrefix) :
          ~(Len(f) = Len(OutRoot) + 2 /\ SubSeq(f, 1, Len(OutRoot)) = OutRoot)
             => f \in files

====
